---- MODULE Spec2Model ----
(***************************************************************************)
(* Patch Cropper (src/main.py): the session loop of navigate_images and    *)
(* the mouse callback draw_squares, as a state machine.                    *)
(*                                                                         *)
(* A point is <<x, y>>, a square is <<top_left, bottom_right>>, an image   *)
(* is represented by its shape <<height, width>>, and a string is the      *)
(* sequence of its characters.                                             *)
(***************************************************************************)
EXTENDS Integers, Sequences, FiniteSets, TLC

VARIABLES
    image_files,     \* navigate_images: the sorted list of image paths
    patch_size,      \* --patch-size
    index,           \* navigate_images: index of the displayed image
    squares,         \* the list of squares shared by the loop and the callback
    param_image,     \* the image display_image read and gave the callback (param[0])
    preview_square,  \* the callback's preview square (param[3])
    pc,              \* "loop" while the while-loop runs, "done" after it
    last,            \* the latest event handled, with index and len(squares) before it
    written,         \* the cv2.imwrite calls issued by the latest event's handler
    printed,         \* the line printed by the latest event's handler
    shown,           \* the cv2.imshow calls issued by the latest event's handler
    placed,          \* history: the squares left clicks added to the displayed image
                     \* and no middle click removed, oldest first
    box1, box2,      \* two boxes handed to is_overlapping
    overlap          \* what is_overlapping answered for them, in both orders

session == <<image_files, patch_size, index, squares, param_image, preview_square,
             pc, last, written, printed, shown, placed>>

boxes == <<box1, box2, overlap>>

vars == <<session, boxes>>

----------------------------------------------------------------------------
(* Bounds of the model.                                                    *)

MaxImages == 2
MaxSquares == 2
MaxPatch == 3
MaxCoord == 2

PatchSizes == 2..MaxPatch

----------------------------------------------------------------------------
(* Strings and paths.                                                      *)

\* The characters used, in code point order.
Alphabet == <<".", "/", "0", "1", "2", "3", "4", "5", "6", "7", "8", "9",
              "_", "a", "b", "c", "g", "i", "j", "n", "p", "t", "x">>

Ord(c) == CHOOSE i \in 1..Len(Alphabet) : Alphabet[i] = c

Min2(a, b) == IF a < b THEN a ELSE b
Max2(a, b) == IF a > b THEN a ELSE b

\* Python's s < t on strings.
StrLess(s, t) ==
    \E k \in 1..(Min2(Len(s), Len(t)) + 1) :
        /\ \A j \in 1..(k - 1) : s[j] = t[j]
        /\ \/ k <= Len(s) /\ k <= Len(t) /\ Ord(s[k]) < Ord(t[k])
           \/ k = Len(s) + 1 /\ k <= Len(t)

\* str.endswith
endswith(s, suffix) ==
    /\ Len(s) >= Len(suffix)
    /\ SubSeq(s, Len(s) - Len(suffix) + 1, Len(s)) = suffix

JPG == <<".", "j", "p", "g">>
PNG == <<".", "p", "n", "g">>

\* os.path.join(images_path, f)
join(dir, f) == dir \o <<"/">> \o f

\* os.path.basename: what follows the last "/".
basename(p) ==
    LET slashes == {k \in 1..Len(p) : p[k] = "/"}
        cut == IF slashes = {} THEN 0
               ELSE CHOOSE k \in slashes : \A j \in slashes : j <= k
    IN  SubSeq(p, cut + 1, Len(p))

\* str(i) for a one-digit i.
Str(i) == <<Alphabet[i + 3]>>

\* sorted(S): the elements of S in ascending order.
RECURSIVE sorted(_)
sorted(S) ==
    IF S = {} THEN << >>
    ELSE LET m == CHOOSE a \in S : \A b \in S \ {a} : StrLess(a, b)
         IN  <<m>> \o sorted(S \ {m})

\* seq[i] as Python evaluates it: a negative i counts from the end.
PyIndex(seq, i) == IF i >= 0 THEN seq[i + 1] ELSE seq[Len(seq) + i + 1]

----------------------------------------------------------------------------
(* The environment: the images directory and the images in it.             *)

images_path == <<"i", "n">>

A_JPG == <<"a", ".", "j", "p", "g">>
A_PNG == <<"a", ".", "p", "n", "g">>
B_PNG == <<"b", ".", "p", "n", "g">>
C_TXT == <<"c", ".", "t", "x", "t">>

\* The files a directory may hold.
FileNames == {A_JPG, A_PNG, B_PNG, C_TXT}

\* cv2.imread: the image (its shape <<height, width>>) stored in a file.
imread(path) ==
    LET f == basename(path)
    IN  CASE f = A_JPG -> <<2, 5>>
          [] f = A_PNG -> <<5, 2>>
          [] OTHER     -> <<3, 3>>

\* The list comprehension of navigate_images, sorted.
ImageFiles(listing) ==
    sorted({join(images_path, f) : f \in {g \in listing : endswith(g, JPG) \/ endswith(g, PNG)}})

----------------------------------------------------------------------------
(* The placement engine.                                                   *)

\* Mutants of is_overlapping: one comparison forgotten; touching boxes told apart.
is_overlappingOneSided(square1, square2) ==
    IF \/ square1[2][1] < square2[1][1]
       \/ square1[2][2] < square2[1][2]
       \/ square1[1][2] > square2[2][2]
    THEN FALSE
    ELSE TRUE
is_overlappingStrict(square1, square2) ==
    IF \/ square1[2][1] <= square2[1][1]
       \/ square1[1][1] >= square2[2][1]
       \/ square1[2][2] <= square2[1][2]
       \/ square1[1][2] >= square2[2][2]
    THEN FALSE
    ELSE TRUE

is_overlapping(square1, square2) ==
    IF \/ square1[2][1] < square2[1][1]
       \/ square1[1][1] > square2[2][1]
       \/ square1[2][2] < square2[1][2]
       \/ square1[1][2] > square2[2][2]
    THEN FALSE
    ELSE TRUE

\* Lines 47-48: the adjusted centre point.
ClampX(image, x) == Max2(patch_size \div 2, Min2(image[2] - patch_size \div 2, x))
ClampY(image, y) == Max2(patch_size \div 2, Min2(image[1] - patch_size \div 2, y))

\* Lines 51-52: the square around the adjusted centre point.
SquareAt(image, x, y) ==
    LET cx == ClampX(image, x)
        cy == ClampY(image, y)
    IN  << <<cx - patch_size \div 2, cy - patch_size \div 2>>,
           <<cx + patch_size \div 2, cy + patch_size \div 2>> >>

\* Line 70: the containment test of the middle click.
Contains(square, x, y) ==
    /\ square[1][1] <= x /\ x <= square[2][1]
    /\ square[1][2] <= y /\ y <= square[2][2]

\* list.remove: drops the first element equal to v.
ListRemove(seq, v) ==
    LET k == CHOOSE i \in 1..Len(seq) :
                 seq[i] = v /\ \A j \in 1..(i - 1) : seq[j] # v
    IN  SubSeq(seq, 1, k - 1) \o SubSeq(seq, k + 1, Len(seq))

\* Line 44: the image the callback works on.
CurrentImage == param_image

\* Lines 74-83: the image is drawn with the preview square and the squares.
Redraw == shown' = <<[squares |-> squares', preview |-> preview_square']>>

\* A return before line 74.
NoRedraw == shown' = << >>

Before(ev) == [ev |-> ev, index |-> index, n |-> Len(squares)]

NoOutput == /\ written' = << >>
            /\ printed' = << >>

\* Mutant of OnMouseMove: the preview square is committed as it moves.
OnMouseMoveCommits(x, y) ==
    /\ preview_square' = SquareAt(CurrentImage, x, y)
    /\ squares' = IF Len(squares) < MaxSquares
                  THEN Append(squares, SquareAt(CurrentImage, x, y))
                  ELSE squares
    /\ UNCHANGED placed
    /\ Redraw

\* EVENT_MOUSEMOVE
OnMouseMove(x, y) ==
    /\ preview_square' = SquareAt(CurrentImage, x, y)
    /\ UNCHANGED <<squares, placed>>
    /\ Redraw

\* EVENT_LBUTTONDOWN
OnLButtonDown(x, y) ==
    /\ UNCHANGED preview_square
    /\ IF \E i \in 1..Len(squares) : is_overlapping(preview_square, squares[i])
       THEN /\ UNCHANGED <<squares, placed>>
            /\ NoRedraw
       ELSE /\ Len(squares) < MaxSquares
            /\ squares' = Append(squares, SquareAt(CurrentImage, x, y))
            /\ placed' = Append(placed, SquareAt(CurrentImage, x, y))
            /\ Redraw

\* EVENT_MBUTTONDOWN
OnMButtonDown(x, y) ==
    LET cx == ClampX(CurrentImage, x)
        cy == ClampY(CurrentImage, y)
        hit == {i \in 1..Len(squares) : Contains(squares[i], cx, cy)}
    IN  /\ UNCHANGED preview_square
        /\ IF hit = {}
           THEN /\ UNCHANGED <<squares, placed>>
                /\ Redraw
           ELSE LET first == CHOOSE i \in hit : \A j \in hit : i <= j
                IN  /\ squares' = ListRemove(squares, squares[first])
                    /\ placed' = SubSeq(placed, 1, first - 1)
                                     \o SubSeq(placed, first + 1, Len(placed))
                    /\ NoRedraw

\* Any other mouse event (a button released, a right click, ...).
OnOtherMouse(x, y) ==
    /\ UNCHANGED <<squares, preview_square, placed>>
    /\ Redraw

MouseEvents == {"move", "lclick", "mclick", "mouse"}

\* The pointer positions over an image.
PointerXs(image) == 0..(image[2] - 1)
PointerYs(image) == 0..(image[1] - 1)

draw_squares(event, x, y) ==
    /\ pc = "loop"
    /\ CASE event = "move"   -> OnMouseMove(x, y)
         [] event = "lclick" -> OnLButtonDown(x, y)
         [] event = "mclick" -> OnMButtonDown(x, y)
         [] OTHER            -> OnOtherMouse(x, y)
    /\ last' = Before(event)
    /\ NoOutput
    /\ UNCHANGED <<image_files, patch_size, index, param_image, pc>>
    /\ UNCHANGED boxes

----------------------------------------------------------------------------
(* The session loop.                                                       *)

\* list.clear(): the list object afterwards.
ClearKeepsItems(list) == list
Clear(list) == << >>

\* display_image(image_files[i], patch_size, list, i, len(image_files)),
\* where list is the list object the caller passes; the callback and the
\* loop share it afterwards.
display_image(i, list) ==
    /\ printed' = <<"Displaying image", PyIndex(image_files, i), i + 1, Len(image_files)>>
    /\ squares' = Clear(list)
    /\ param_image' = imread(PyIndex(image_files, i))
    /\ preview_square' = << <<0, 0>>, <<0, 0>> >>
    /\ shown' = <<[squares |-> << >>, preview |-> << >>]>>
    /\ placed' = << >>

CanNext == index < Len(image_files) - 1

CanPrevAtFirst == index >= 0
CanPrev == index > 0

\* The name of the i-th patch file of the displayed image.
PatchNameKeepsDot(i) ==
    LET b == basename(PyIndex(image_files, index))
    IN  SubSeq(b, 1, Len(b) - 3) \o <<"_">> \o Str(i) \o PNG
PatchNameOf(path, i) ==
    LET b == basename(path)
    IN  SubSeq(b, 1, Len(b) - 4) \o <<"_">> \o Str(i) \o PNG
PatchName(i) == PatchNameOf(PyIndex(image_files, index), i)

\* Mutant of Crop: image[x0:x1, y0:y1], rows and columns exchanged.
CropTransposed(image, square) ==
    << <<Min2(square[1][2], image[2]), Min2(square[1][1], image[1])>>,
       <<Min2(square[2][2], image[2]), Min2(square[2][1], image[1])>> >>

\* image[y0:y1, x0:x1]: the slice, cut at the image's borders.
Crop(image, square) ==
    << <<Min2(square[1][1], image[2]), Min2(square[1][2], image[1])>>,
       <<Min2(square[2][1], image[2]), Min2(square[2][2], image[1])>> >>

\* Mutant of KeyQuit: the break is missing.
KeyQuitKeepsLooping ==
    /\ pc = "loop"
    /\ pc' = pc
    /\ last' = Before("quit")
    /\ NoOutput
    /\ NoRedraw
    /\ UNCHANGED <<image_files, patch_size, index, squares, param_image,
                   preview_square, placed>>
    /\ UNCHANGED boxes

KeyQuit ==
    /\ pc = "loop"
    /\ pc' = "done"
    /\ last' = Before("quit")
    /\ NoOutput
    /\ NoRedraw
    /\ UNCHANGED <<image_files, patch_size, index, squares, param_image,
                   preview_square, placed>>
    /\ UNCHANGED boxes

\* The window was closed: the loop condition fails.
WindowClosed ==
    /\ pc = "loop"
    /\ pc' = "done"
    /\ last' = Before("closed")
    /\ NoOutput
    /\ NoRedraw
    /\ UNCHANGED <<image_files, patch_size, index, squares, param_image,
                   preview_square, placed>>
    /\ UNCHANGED boxes

KeyNext ==
    /\ pc = "loop"
    /\ last' = Before("next")
    /\ IF CanNext
       THEN /\ index' = index + 1
            /\ display_image(index + 1, << >>)
            /\ written' = << >>
       ELSE /\ NoOutput
            /\ NoRedraw
            /\ UNCHANGED <<index, squares, param_image, preview_square, placed>>
    /\ UNCHANGED <<image_files, patch_size, pc>>
    /\ UNCHANGED boxes

KeyPrev ==
    /\ pc = "loop"
    /\ last' = Before("prev")
    /\ IF CanPrev
       THEN /\ index' = index - 1
            /\ display_image(index - 1, squares)
            /\ written' = << >>
       ELSE /\ NoOutput
            /\ NoRedraw
            /\ UNCHANGED <<index, squares, param_image, preview_square, placed>>
    /\ UNCHANGED <<image_files, patch_size, pc>>
    /\ UNCHANGED boxes

\* Mutant of KeySave: the list is emptied once the patches are written.
KeySaveClears ==
    /\ pc = "loop"
    /\ last' = Before("save")
    /\ LET image == imread(PyIndex(image_files, index))
       IN  written' = [k \in 1..Len(squares) |->
                          [name |-> PatchName(k - 1), patch |-> Crop(image, squares[k])]]
    /\ printed' = <<"Patches saved for", basename(PyIndex(image_files, index)), Len(squares)>>
    /\ NoRedraw
    /\ squares' = << >>
    /\ placed' = << >>
    /\ UNCHANGED <<image_files, patch_size, index, param_image, preview_square, pc>>
    /\ UNCHANGED boxes

KeySave ==
    /\ pc = "loop"
    /\ last' = Before("save")
    /\ LET image == imread(PyIndex(image_files, index))
       IN  written' = [k \in 1..Len(squares) |->
                          [name |-> PatchName(k - 1), patch |-> Crop(image, squares[k])]]
    /\ printed' = <<"Patches saved for", basename(PyIndex(image_files, index)), Len(squares)>>
    /\ NoRedraw
    /\ UNCHANGED <<image_files, patch_size, index, squares, param_image,
                   preview_square, pc, placed>>
    /\ UNCHANGED boxes

\* waitKey timed out, or another key was pressed.
KeyOther ==
    /\ pc = "loop"
    /\ last' = Before("key")
    /\ NoOutput
    /\ NoRedraw
    /\ UNCHANGED <<image_files, patch_size, index, squares, param_image,
                   preview_square, pc, placed>>
    /\ UNCHANGED boxes

NoBox == << <<0, 0>>, <<0, 0>> >>

\* navigate_images up to the loop, for a directory that holds images.
Init ==
    /\ \E listing \in SUBSET FileNames :
          /\ ImageFiles(listing) # << >>
          /\ Len(ImageFiles(listing)) <= MaxImages
          /\ image_files = ImageFiles(listing)
    /\ patch_size \in PatchSizes
    /\ index = 0
    /\ squares = << >>
    /\ param_image = imread(image_files[1])
    /\ preview_square = << <<0, 0>>, <<0, 0>> >>
    /\ pc = "loop"
    /\ last = [ev |-> "start", index |-> 0, n |-> 0]
    /\ written = << >>
    /\ printed = <<"Displaying image", image_files[1], 1, Len(image_files)>>
    /\ shown = <<[squares |-> << >>, preview |-> << >>]>>
    /\ placed = << >>
    /\ box1 = NoBox /\ box2 = NoBox /\ overlap = << >>

MouseEvent ==
    \E event \in MouseEvents :
        \E x \in PointerXs(CurrentImage), y \in PointerYs(CurrentImage) :
            draw_squares(event, x, y)

Next ==
    \/ MouseEvent
    \/ KeyNext
    \/ KeyPrev
    \/ KeySave
    \/ KeyOther
    \/ KeyQuit
    \/ WindowClosed

Spec == Init /\ [][Next]_vars

----------------------------------------------------------------------------
(* is_overlapping on its own: two boxes are drawn, then compared.          *)

Coords == 0..MaxCoord

\* The boxes <<top_left, bottom_right>> with corners in Coords.
Boxes ==
    {b \in (Coords \X Coords) \X (Coords \X Coords) :
        b[1][1] <= b[2][1] /\ b[1][2] <= b[2][2]}

InitBoxes ==
    /\ image_files = <<join(images_path, A_JPG)>>
    /\ patch_size = 2
    /\ index = 0
    /\ squares = << >>
    /\ param_image = imread(image_files[1])
    /\ preview_square = NoBox
    /\ pc = "done"
    /\ last = [ev |-> "start", index |-> 0, n |-> 0]
    /\ written = << >>
    /\ printed = << >>
    /\ shown = << >>
    /\ placed = << >>
    /\ box1 \in Boxes
    /\ box2 \in Boxes
    /\ overlap = << >>

Compare ==
    /\ overlap = << >>
    /\ overlap' = <<is_overlapping(box1, box2), is_overlapping(box2, box1)>>
    /\ UNCHANGED <<box1, box2>>
    /\ UNCHANGED session

NextBoxes == Compare

SpecBoxes == InitBoxes /\ [][NextBoxes]_vars

----------------------------------------------------------------------------
(* Properties.                                                             *)

NumImages == Len(image_files)

InitialPreview == << <<0, 0>>, <<0, 0>> >>

\* The squares of the list that contain the point <<x, y>>.
Holding(x, y) == {i \in 1..Len(squares) : Contains(squares[i], x, y)}

\* The list without its k-th element.
Without(seq, k) == SubSeq(seq, 1, k - 1) \o SubSeq(seq, k + 1, Len(seq))

\* C1: in every reachable state no two squares of the Square Set overlap
\* each other under is_overlapping.
C1_NoTwoSquaresOverlap ==
    \A i, j \in 1..Len(squares) :
        i # j => ~is_overlapping(squares[i], squares[j])

\* C2: a left click whose candidate square (the clamped square computed from
\* the click position) overlaps a member of the set leaves the set as it was.
C2_OverlappingClickRejected ==
    [][\A x \in PointerXs(CurrentImage), y \in PointerYs(CurrentImage) :
          (/\ draw_squares("lclick", x, y)
           /\ \E i \in 1..Len(squares) :
                  is_overlapping(SquareAt(CurrentImage, x, y), squares[i]))
          => squares' = squares]_vars

\* C3: a left click whose candidate square overlaps no member of the set
\* makes the set grow by exactly that square.
C3_FreeClickAccepted ==
    [][\A x \in PointerXs(CurrentImage), y \in PointerYs(CurrentImage) :
          (/\ draw_squares("lclick", x, y)
           /\ \A i \in 1..Len(squares) :
                  ~is_overlapping(SquareAt(CurrentImage, x, y), squares[i]))
          => squares' = Append(squares, SquareAt(CurrentImage, x, y))]_vars

\* A square that lies inside the image and has sides of patch_size.
WellPlaced(square, image) ==
    /\ 0 <= square[1][1] /\ square[2][1] <= image[2]
    /\ 0 <= square[1][2] /\ square[2][2] <= image[1]
    /\ square[2][1] - square[1][1] = patch_size
    /\ square[2][2] - square[1][2] = patch_size

\* C4: every square the placement engine computed (the preview square once
\* the pointer moved, and every square of the set) lies fully inside the
\* image and has width = height = patch_size.
C4_SquaresInsideAndSized ==
    /\ \A i \in 1..Len(squares) : WellPlaced(squares[i], CurrentImage)
    /\ preview_square # InitialPreview => WellPlaced(preview_square, CurrentImage)

\* C5: a middle click removes the first square, in list order, whose box
\* contains the pointer position, and only it; when no square contains the
\* pointer position the set is unchanged.
C5_RemovesFirstHolder ==
    [][\A x \in PointerXs(CurrentImage), y \in PointerYs(CurrentImage) :
          draw_squares("mclick", x, y)
          => IF Holding(x, y) = {}
             THEN squares' = squares
             ELSE \E k \in Holding(x, y) :
                     /\ \A j \in Holding(x, y) : k <= j
                     /\ squares' = Without(squares, k)]_vars

\* C6: a middle click at a point inside exactly one square of the set makes
\* the set one smaller, and the square removed is the one holding the point.
C6_SingleHolderRemoved ==
    [][\A x \in PointerXs(CurrentImage), y \in PointerYs(CurrentImage) :
          (draw_squares("mclick", x, y) /\ Cardinality(Holding(x, y)) = 1)
          => /\ Len(squares') = Len(squares) - 1
             /\ \E k \in Holding(x, y) : squares' = Without(squares, k)]_vars

\* C7: whenever a next or prev key changed the index, the Square Set is empty
\* right afterwards (so nothing placed earlier on the image is restored).
C7_NavigationEmptiesSet ==
    (last.ev \in {"next", "prev"} /\ index # last.index) => squares = << >>

C7_Witness ==
    /\ last.ev = "prev" /\ index = 0 /\ last.index = 1
    /\ last.n > 0 /\ squares = << >>

\* C8 as stated: prev pressed when not at the first image decreases the index
\* by one and leaves the Square Set holding the same squares.
C8_PrevKeepsSet ==
    [][(KeyPrev /\ index > 0) => (index' = index - 1 /\ squares' = squares)]_vars

\* C8 as amended: prev pressed when not at the first image decreases the
\* index by one and empties the Square Set, as next does.
C8_PrevEmptiesSet ==
    (last.ev = "prev" /\ last.index > 0)
        => (index = last.index - 1 /\ squares = << >>)

C8_Witness ==
    /\ last.ev = "prev" /\ last.index > 0 /\ last.n >= 2
    /\ index = last.index - 1 /\ Len(squares) = 0

\* C9: the index stays within 0..N-1; next advances it by exactly one and
\* only when not at the last image, prev retreats it by exactly one and only
\* when not at the first image, nothing else changes it, and next at the last
\* image or prev at the first image changes neither the index nor the set.
C9_IndexInRange ==
    /\ index \in 0..(NumImages - 1)
    /\ [][/\ index' \in 0..(NumImages - 1)
          /\ KeyNext => IF index < NumImages - 1
                        THEN index' = index + 1
                        ELSE index' = index /\ squares' = squares
          /\ KeyPrev => IF index > 0
                        THEN index' = index - 1
                        ELSE index' = index /\ squares' = squares
          /\ index' # index => (KeyNext \/ KeyPrev)]_vars

C9_Witness ==
    /\ last.ev = "next" /\ last.index = NumImages - 1 /\ NumImages > 1
    /\ index = last.index /\ last.n > 0 /\ Len(squares) = last.n

Digits == <<"0", "1", "2", "3", "4", "5", "6", "7", "8", "9">>

\* The names an image file name without its extension may be.
Stems(b) == {SubSeq(b, 1, j) : j \in 0..Len(b)}

Points(b) == {<<x, y>> : x \in b[1][1]..b[2][1], y \in b[1][2]..b[2][2]}

\* Box a ends before box b begins, on the x axis and on the y axis.
StrictlyLeft(a, b) == a[2][1] < b[1][1]
StrictlyAbove(a, b) == a[2][2] < b[1][2]

Apart(a, b) ==
    \/ StrictlyLeft(a, b) \/ StrictlyLeft(b, a)
    \/ StrictlyAbove(a, b) \/ StrictlyAbove(b, a)

\* C11: the overlap test is symmetric: for all boxes a and b,
\* is_overlapping(a, b) equals is_overlapping(b, a).
C11_OverlapSymmetric ==
    overlap # << >> => overlap[1] = overlap[2]

C11_Witness ==
    /\ overlap = <<FALSE, FALSE>>
    /\ StrictlyLeft(box2, box1) /\ ~StrictlyAbove(box1, box2) /\ ~StrictlyAbove(box2, box1)

\* C12: is_overlapping(a, b) is false exactly when one box lies strictly to
\* the left of, right of, above or below the other; two boxes that share
\* only an edge or a corner (any point at all) are reported as overlapping.
C12_FalseExactlyWhenApart ==
    overlap # << >> =>
        /\ overlap[1] = ~Apart(box1, box2)
        /\ Points(box1) \cap Points(box2) # {} => overlap[1] = TRUE

C12_Witness ==
    /\ overlap # << >> /\ overlap[1] = TRUE
    /\ Cardinality(Points(box1) \cap Points(box2)) = 1
    /\ Cardinality(Points(box1)) > 1 /\ Cardinality(Points(box2)) > 1

\* C13: a pointer move only recomputes the preview square: it leaves the
\* Square Set and the index unchanged, and the set gains a member through a
\* left click only.
C13_MoveOnlyMovesPreview ==
    [][/\ last'.ev = "move" => (squares' = squares /\ index' = index)
       /\ Len(squares') > Len(squares) => last'.ev = "lclick"]_vars

C13_Witness ==
    /\ last.ev = "move" /\ Len(squares) > 0
    /\ preview_square # NoBox
    /\ \A k \in 1..Len(squares) : squares[k] # preview_square

\* C14: every pointer event is followed by a redraw: after a pointer move,
\* a left click or a middle click has been handled, the window was redrawn
\* and the squares it shows are exactly the squares of the Square Set.
C14_PointerEventRedraws ==
    last.ev \in {"move", "lclick", "mclick"} =>
        (Len(shown) = 1 /\ shown[1].squares = squares)

\* The pixels of a region <<top_left, bottom_right>>, bottom and right excluded.
Pixels(region) ==
    {<<x, y>> : x \in region[1][1]..(region[2][1] - 1),
                y \in region[1][2]..(region[2][2] - 1)}

ImagePixels(image) == Pixels(<< <<0, 0>>, <<image[2], image[1]>> >>)

\* C15: a save writes the squares that left clicks added to the displayed
\* image since it was displayed and that no middle click removed, in
\* placement order: file i holds the crop (the part inside the image) of the
\* i-th oldest of them, also after next or prev changed the image.
C15_SaveWritesSurvivors ==
    last.ev = "save" =>
        /\ Len(written) = Len(placed)
        /\ \A k \in 1..Len(written) :
              /\ written[k].name[Len(written[k].name) - 4] = Digits[k]
              /\ Pixels(written[k].patch)
                     = Pixels(placed[k]) \cap ImagePixels(CurrentImage)

C15_Witness ==
    /\ last.ev = "save" /\ index > 0
    /\ Len(written) >= 2 /\ placed[1] # placed[2]

\* The file names among the imwrite calls.
Names(calls) == {calls[k].name : k \in 1..Len(calls)}

\* C16: save leaves the session state unchanged: the index, the Square Set
\* (members and order) and the preview square are the same after a save as
\* before it, and a save right after a save writes the same file names.
C16_SaveChangesNothing ==
    [][last'.ev = "save" =>
          /\ index' = index
          /\ squares' = squares
          /\ preview_square' = preview_square
          /\ last.ev = "save" => Names(written') = Names(written)]_vars

C16_Witness ==
    /\ last.ev = "save" /\ last.n >= 1 /\ Len(squares) = last.n
    /\ preview_square # NoBox /\ index = last.index

\* C17: quit ends the loop from any session state: once the quit key has
\* been processed the loop is over and no key or pointer event is handled any
\* more (so the index, the Square Set and the files stay as they are, and
\* the session has terminated).
C17_QuitEndsLoop ==
    /\ last.ev = "quit" => pc = "done"
    /\ pc = "done" => ~ENABLED Next

C17_Witness ==
    /\ last.ev = "quit" /\ pc = "done"
    /\ Len(squares) > 0 /\ index > 0

\* C18: saves on two different images of the list write disjoint sets of
\* file names: no file a save wrote has a name that a save on another image
\* of the list writes.
C18_SavesWriteDisjointNames ==
    last.ev = "save" =>
        \A j \in 1..NumImages :
            j # index + 1 =>
                \A m \in 0..(MaxSquares - 1) :
                    PatchNameOf(image_files[j], m) \notin Names(written)

====
